---- MODULE Spec2Model ----
(***************************************************************************)
(* Venue telemetry publishers: the three scripts                           *)
(*   pulse-publisher.py            (variant "file":    shared JSON file)   *)
(*   jimmyneutron-rpi-publisher.py (variant "api":     local HTTP API)     *)
(*   rpi-sensor-publisher.py       (variant "generic": mock generator)     *)
(* share one main loop: connect, then read / publish / sleep until a       *)
(* KeyboardInterrupt.  The model follows main() and publish_sensor_data()  *)
(* statement by statement; values are JSON values as Python sees them.     *)
(***************************************************************************)
EXTENDS Integers, Sequences, FiniteSets, TLC

\* ------------------------------------------------------------- bounds
MaxTicks == 2        \* calls of publish_sensor_data explored in one run
MaxCount == 1        \* entry / exit counters range over 0..MaxCount
JitterSteps == 1     \* random.uniform(a, b) takes a + (b-a)*j/JitterSteps
VarSteps == 4        \* (time % 60)/60 takes v/VarSteps, v < VarSteps
MaxLen == 5          \* length of the now-playing strings explored
SensorNum == 5       \* the numeric reading a raw document may carry

\* ------------------------------------------------- program constants
PUBLISH_INTERVAL == 15
VENUE_CAPACITY == 400
API_CAPACITY == 200

Variants == {"file", "api", "generic"}
CertFiles == {"Certificate", "Private Key", "Root CA"}

\* ------------------------------------------------------- JSON values
JNull == [k |-> "null"]
JNum(n) == [k |-> "num", n |-> n]
JStr(s) == [k |-> "str", s |-> s]
JObj(o) == [k |-> "obj", o |-> o]
JList == [k |-> "list"]
PyNone == JNull
EmptyDict == [x \in {} |-> x]

IsNum(v) == v.k = "num"

\* bool(v) for a JSON value
Truthy(v) ==
  CASE v.k = "null" -> FALSE
    [] v.k = "num" -> v.n # 0
    [] v.k = "str" -> v.s # <<>>
    [] v.k = "obj" -> DOMAIN v.o # {}
    [] OTHER -> TRUE

\* bool(d) for a local that is None or a dict built by the script
DictTruthy(d) == d # PyNone /\ DOMAIN d # {}

\* dict.get(key, default)
GetNoDefault(d, key, default) == IF key \in DOMAIN d THEN d[key] ELSE PyNone
Get(d, key, default) == IF key \in DOMAIN d THEN d[key] ELSE default

\* ------------------------------------------------------ str methods
Unknown == <<"U", "n", "k", "n", "o", "w", "n">>
ErrorPrefix == <<"E", "r", "r", "o", "r">>
Separator == <<" ", "-", " ">>
Whitespace == {" "}

StartsWith(s, p) == Len(s) >= Len(p) /\ SubSeq(s, 1, Len(p)) = p

\* 1-based index of the first occurrence of sep in s, 0 when there is none
Find(s, sep) ==
  LET hits == {i \in 1..(Len(s) - Len(sep) + 1) : SubSeq(s, i, i + Len(sep) - 1) = sep}
  IN IF hits = {} THEN 0 ELSE CHOOSE i \in hits : \A j \in hits : i <= j

Contains(s, sep) == Find(s, sep) # 0

\* s.split(sep, 1) for a string that contains sep
Split1(s, sep) ==
  LET i == Find(s, sep)
  IN <<SubSeq(s, 1, i - 1), SubSeq(s, i + Len(sep), Len(s))>>

NoStrip(s) == s
Strip(s) ==
  LET keep == {i \in 1..Len(s) : s[i] \notin Whitespace}
  IN IF keep = {} THEN <<>>
     ELSE LET lo == CHOOSE i \in keep : \A j \in keep : i <= j
              hi == CHOOSE i \in keep : \A j \in keep : j <= i
          IN SubSeq(s, lo, hi)

\* ------------------------------------------------ fixed-point numbers
\* Sensor readings are fixed-point numbers in thousandths.
Milli(n) == n * 1000

\* round(x, 2) for x >= 0, ties to even
Round2(x) ==
  LET q == x \div 10
      r == x % 10
  IN IF r < 5 THEN q * 10
     ELSE IF r > 5 THEN (q + 1) * 10
     ELSE IF q % 2 = 0 THEN q * 10 ELSE (q + 1) * 10

\* ------------------------------------------------------ mock generator
MockFields == {"sound_level", "light_level", "indoor_temperature",
               "outdoor_temperature", "humidity"}

\* random.uniform(a, b) at grid point j of 0..JitterSteps
Uniform(a, b, j) == Milli(a) + (Milli(b - a) * j) \div JitterSteps

\* variation * scale, for variation = v / VarSteps in [0, 1)
Variation(v, scale) == (Milli(scale) * v) \div VarSteps

\* the five unrounded values of get_mock_sensor_data (rpi-sensor-publisher.py)
MockValues(j, v) ==
  [f \in MockFields |->
     CASE f = "sound_level" -> Milli(65) + Uniform(0 - 10, 20, j[f]) + Variation(v, 15)
       [] f = "light_level" -> Milli(300) + Uniform(0 - 50, 150, j[f]) + Variation(v, 100)
       [] f = "indoor_temperature" -> Milli(70) + Uniform(0 - 3, 5, j[f]) + Variation(v, 4)
       [] f = "outdoor_temperature" -> Milli(65) + Uniform(0 - 5, 10, j[f])
       [] f = "humidity" -> Milli(45) + Uniform(0 - 10, 15, j[f]) + Variation(v, 10)]

\* get_mock_sensor_data of rpi-sensor-publisher.py: unrounded floats
get_mock_sensor_data_generic(j, v) == [f \in MockFields |-> JNum(MockValues(j, v)[f])]

\* get_mock_sensor_data of jimmyneutron-rpi-publisher.py: rounded to 2 places
get_mock_sensor_data_api(j, v) == [f \in MockFields |-> JNum(Round2(MockValues(j, v)[f]))]

\* the draws of one call: a jitter per field and the time-based variation
MockDraws == [j : [MockFields -> 0..JitterSteps], v : 0..(VarSteps - 1)]

\* ----------------------------------------- shared-file variant: read
FileErrZeroReading(reason) ==
  [sensors |-> [f \in MockFields \cup {"pressure"} |-> JNum(0)], occupancy |-> PyNone,
   spotify |-> PyNone, err |-> reason]
FileErr(reason) == [sensors |-> PyNone, occupancy |-> PyNone, spotify |-> PyNone, err |-> reason]

\* lines 70-77: the sensors dict
FileSensors(data) ==
  [f \in MockFields \cup {"pressure"} |->
     CASE f = "sound_level" -> Get(data, "avg_db", JNum(0))
       [] f = "light_level" -> Get(data, "lux", JNum(0))
       [] f = "indoor_temperature" -> Get(data, "temperature_f", JNum(0))
       [] f = "outdoor_temperature" -> Get(data, "temperature_f", JNum(0))
       [] f = "humidity" -> Get(data, "humidity", JNum(0))
       [] f = "pressure" -> Get(data, "pressure", JNum(0))]

\* lines 80-85: the subtraction raises TypeError unless both are numbers
FileOccupancyRaises(data) ==
  ~ (IsNum(Get(data, "entries", JNum(0))) /\ IsNum(Get(data, "exits", JNum(0))))

FileOccupancy(data) ==
  [current |-> JNum(Get(data, "entries", JNum(0)).n - Get(data, "exits", JNum(0)).n),
   entries |-> Get(data, "entries", JNum(0)),
   exits |-> Get(data, "exits", JNum(0)),
   capacity |-> JNum(VENUE_CAPACITY)]

\* lines 90-104 for a now-playing string s
NowPlaying(s) ==
  IF s # <<>> /\ ~ StartsWith(s, ErrorPrefix)
  THEN IF Contains(s, Separator)
       THEN [current_song |-> JStr(Strip(Split1(s, Separator)[1])),
             artist |-> JStr(Strip(Split1(s, Separator)[2])),
             album_art |-> PyNone]
       ELSE [current_song |-> JStr(s), artist |-> JStr(Unknown), album_art |-> PyNone]
  ELSE PyNone

\* line 90: a truthy value that is no string has no startswith
FileSpotifyRaises(data) ==
  LET current_song == Get(data, "current_song", JStr(<<>>))
  IN Truthy(current_song) /\ current_song.k # "str"

FileSpotify(data) ==
  LET current_song == Get(data, "current_song", JStr(<<>>))
  IN IF Truthy(current_song) THEN NowPlaying(current_song.s) ELSE PyNone

\* read_sensor_data of pulse-publisher.py on one state of the shared file
read_sensor_data_file(inp) ==
  CASE inp.kind = "missing" -> FileErr("file missing")
    [] inp.kind = "malformed" -> FileErr("malformed content")
    [] inp.kind = "ioerror" -> FileErr("other")
    [] inp.kind = "doc" ->
         IF inp.data.k # "obj" THEN FileErr("other")
         ELSE IF FileOccupancyRaises(inp.data.o) \/ FileSpotifyRaises(inp.data.o)
              THEN FileErr("other")
              ELSE [sensors |-> FileSensors(inp.data.o),
                    occupancy |-> FileOccupancy(inp.data.o),
                    spotify |-> FileSpotify(inp.data.o),
                    err |-> "none"]

\* ------------------------------------------- HTTP-API variant: read
\* lines 56-62: the sensors dict
ApiSensors(api_data) ==
  [f \in MockFields |->
     CASE f = "sound_level" -> Get(api_data, "noise_db", JNum(0))
       [] f = "light_level" -> Get(api_data, "light_level", JNum(0))
       [] f = "indoor_temperature" -> Get(api_data, "temperature_f", JNum(0))
       [] f = "outdoor_temperature" -> Get(api_data, "temperature_f", JNum(0))
       [] f = "humidity" -> Get(api_data, "humidity", JNum(0))]

\* lines 65-70: current is read from the response, not derived
ApiOccupancy(api_data) ==
  [current |-> Get(api_data, "occupancy", JNum(0)),
   entries |-> Get(api_data, "entries", JNum(0)),
   exits |-> Get(api_data, "exits", JNum(0)),
   capacity |-> JNum(API_CAPACITY)]

\* line 75: a truthy current_song that is no dict has no get
ApiSpotifyRaises(api_data) ==
  LET current_song == Get(api_data, "current_song", JObj(EmptyDict))
  IN Truthy(current_song) /\ current_song.k # "obj"

\* lines 73-80
ApiSpotify(api_data) ==
  LET current_song == Get(api_data, "current_song", JObj(EmptyDict))
  IN IF Truthy(current_song) /\ Get(current_song.o, "title", PyNone) # JStr(Unknown)
     THEN [current_song |-> Get(current_song.o, "title", JStr(Unknown)),
           artist |-> Get(current_song.o, "artist", JStr(Unknown)),
           album_art |-> PyNone]
     ELSE PyNone

\* lines 84-87: the except branch
ApiFallbackKeepOccupancy(mock, reason) ==
  [sensors |-> mock,
   occupancy |-> [current |-> JNum(0), entries |-> JNum(0), exits |-> JNum(0),
                  capacity |-> JNum(API_CAPACITY)],
   spotify |-> PyNone, err |-> reason]
ApiFallback(mock, reason) ==
  [sensors |-> mock, occupancy |-> PyNone, spotify |-> PyNone, err |-> reason]

\* read_sensor_data of jimmyneutron-rpi-publisher.py on one API outcome
read_sensor_data_api(useReal, inp, mock) ==
  IF ~ useReal THEN ApiFallback(mock, "none")
  ELSE CASE inp.kind \in {"network error", "timeout", "bad status", "bad body"} ->
              ApiFallback(mock, inp.kind)
         [] inp.kind = "doc" ->
              IF inp.data.k # "obj" THEN ApiFallback(mock, "transform")
              ELSE IF ApiSpotifyRaises(inp.data.o) THEN ApiFallback(mock, "transform")
              ELSE [sensors |-> ApiSensors(inp.data.o),
                    occupancy |-> ApiOccupancy(inp.data.o),
                    spotify |-> ApiSpotify(inp.data.o),
                    err |-> "none"]

\* ---------------------------------------------- generic variant: read
\* read_sensor_data of rpi-sensor-publisher.py: the real-sensor branch calls
\* functions the script never defines, so it always ends in the mock data
read_sensor_data_generic(useReal, mock) ==
  [sensors |-> mock, err |-> IF useReal THEN "sensor" ELSE "none"]

read_spotify_data ==
  [current_song |-> JStr(<<"Test Song">>), artist |-> JStr(<<"Test Artist">>),
   album_art |-> JStr(<<"https://via.placeholder.com/300">>)]

read_occupancy_data ==
  [current |-> JNum(45), entries |-> JNum(120), exits |-> JNum(75), capacity |-> JNum(200)]

\* ------------------------------------------------------------ inputs
SensorVals == {JNum(SensorNum), JNull}
CounterVals == {JNum(n) : n \in 0..MaxCount} \cup {JNull}
ApiCounterVals == {JNum(1), JNull}
SongSamples == {<<>>, <<"a">>, <<"a", " ", "-", " ", "b">>, ErrorPrefix}
FileSongVals == {JNum(1)} \cup {JStr(s) : s \in SongSamples}
TitleVals == {JStr(Unknown), JStr(<<"a">>)}
ArtistVals == {JStr(<<"b">>)}

FileSensorKeys == {"avg_db", "lux", "temperature_f", "humidity", "pressure"}
FileKeys == FileSensorKeys \cup {"entries", "exits", "current_song"}
ApiSensorKeys == {"noise_db", "light_level", "temperature_f", "humidity"}
ApiKeys == ApiSensorKeys \cup {"occupancy", "entries", "exits", "current_song"}

RECURSIVE SongObjects(_)
SongObjects(K) ==
  IF K = {} THEN {EmptyDict}
  ELSE LET key == CHOOSE x \in K : TRUE
           rest == SongObjects(K \ {key})
       IN rest \cup {d @@ (key :> v) : d \in rest,
                                       v \in IF key = "title" THEN TitleVals ELSE ArtistVals}

ApiSongVals == {JNull, JStr(<<"a">>)} \cup {JObj(o) : o \in SongObjects({"title", "artist"})}

ValsOf(source, key) ==
  CASE key \in {"entries", "exits", "occupancy"} ->
         IF source = "file" THEN CounterVals ELSE ApiCounterVals
    [] key = "current_song" -> IF source = "file" THEN FileSongVals ELSE ApiSongVals
    [] OTHER -> SensorVals

\* every JSON object over the keys K: each key absent or one of its values
RECURSIVE Docs(_, _)
Docs(source, K) ==
  IF K = {} THEN {EmptyDict}
  ELSE LET key == CHOOSE x \in K : TRUE
           rest == Docs(source, K \ {key})
       IN rest \cup {d @@ (key :> v) : d \in rest, v \in ValsOf(source, key)}

FileDocs == Docs("file", FileKeys)
ApiDocs == Docs("api", ApiKeys)

FileFailures == {[kind |-> "missing"], [kind |-> "malformed"], [kind |-> "ioerror"],
                 [kind |-> "doc", data |-> JList]}
FileInputs == FileFailures \cup {[kind |-> "doc", data |-> JObj(d)] : d \in FileDocs}

ApiFailures == {[kind |-> "network error"], [kind |-> "timeout"], [kind |-> "bad status"],
                [kind |-> "bad body"], [kind |-> "doc", data |-> JList],
                [kind |-> "doc", data |-> JObj("current_song" :> JStr(<<"a">>))]}
ApiInputs == ApiFailures \cup {[kind |-> "doc", data |-> JObj(d)] : d \in ApiDocs}

\* ----------------------------------------------------- configuration
Placeholder == "YOUR_VENUE_ID"

\* the values of the module constant VENUE_ID a deployment can carry
VenueIds(v) ==
  CASE v = "file" -> {"parlaylp"}
    [] v = "api" -> {"jimmyneutron"}
    [] v = "generic" -> {Placeholder, "my-bar"}

DEVICE_ID(v, venue) ==
  CASE v = "file" -> <<"parlaylp-mainfloor-001">>
    [] v = "api" -> <<"jimmyneutron-mainfloor-001">>
    [] v = "generic" -> <<venue, "-rpi-001">>

MQTT_TOPIC(v, venue) ==
  CASE v = "file" -> <<"pulse/sensors/parlaylp">>
    [] v = "api" -> <<"pulse/sensors/jimmyneutron">>
    [] v = "generic" -> <<"venue/", venue, "/sensors">>

\* ---------------------------------------------------------- messages
\* message[key] = value, executed only under "if value:"
WithOptionalAlways(m, key, value) == m @@ (key :> value)
WithOptional(m, key, value) == IF DictTruthy(value) THEN m @@ (key :> value) ELSE m

\* the "sensors" member of the message, per script
MessageSensors(v, sensors) ==
  CASE v = "file" -> sensors
    [] v = "api" -> [f \in MockFields |-> sensors[f]]
    [] v = "generic" -> [f \in MockFields |-> JNum(Round2(sensors[f].n))]

\* the message dict that publish_sensor_data builds
BuildMessage(v, venue, sensors, occupancy, spotify) ==
  WithOptional(
    WithOptional(
      [deviceId |-> DEVICE_ID(v, venue), venueId |-> venue, timestamp |-> "utcnow",
       sensors |-> MessageSensors(v, sensors)],
      "occupancy", occupancy),
    "spotify", spotify)

\* the arguments of mqtt_connection.publish(topic=..., payload=..., qos=...)
PublishCallAtMostOnce(v, venue, msg) ==
  [topic |-> MQTT_TOPIC(v, venue), payload |-> msg, qos |-> "AT_MOST_ONCE"]
PublishCall(v, venue, msg) ==
  [topic |-> MQTT_TOPIC(v, venue), payload |-> msg, qos |-> "AT_LEAST_ONCE"]

\* the fields the confirmation lines format with ":.1f" after the publish
PrintedFields(v) ==
  CASE v = "file" -> {"sound_level", "light_level", "indoor_temperature", "humidity", "pressure"}
    [] v = "api" -> MockFields
    [] v = "generic" -> {"sound_level", "light_level", "indoor_temperature", "humidity"}

PrintRaises(v, sensors) == \E f \in PrintedFields(v) : ~ IsNum(sensors[f])

\* ------------------------------------------------------------- state
VARIABLES
  variant,          \* which of the three scripts runs
  VENUE_ID,         \* the module constant VENUE_ID of the deployment
  USE_REAL_SENSORS, \* the module constant USE_REAL_SENSORS
  certs,            \* the credential files that exist on disk
  pc,               \* position of the process in main()
  exitCode,         \* exit status once the process has ended
  mqtt_connection,  \* main's local: "unbound", "connected", "disconnected"
  success,          \* main's local: "unbound", "True", "False"
  raw,              \* what the source returned in the running tick
  sensors, occupancy, spotify, message,  \* locals of publish_sensor_data
  sent,             \* the publish call the transport accepted in this tick
  readErr,          \* the source error of the latest tick, "none" if none
  tickPubs,         \* publish calls made in the latest tick
  pubRaised,        \* whether the publish call of the latest tick raised
  ticks,            \* calls of publish_sensor_data so far
  pubCalls,         \* publish calls so far
  connectCalls,     \* connect calls so far
  disconnectCalls,  \* disconnect calls so far
  sleeps,           \* completed time.sleep calls
  sleepDur,         \* seconds slept by the latest time.sleep
  pubLog,           \* topic, QoS and identity of every publish call so far
  intrAt            \* lifecycle state in which KeyboardInterrupt arrived

vars == <<variant, VENUE_ID, USE_REAL_SENSORS, certs, pc, exitCode, mqtt_connection,
          success, raw, sensors, occupancy, spotify, message, sent, readErr, tickPubs,
          pubRaised, ticks, pubCalls, connectCalls, disconnectCalls, sleeps, sleepDur,
          pubLog, intrAt>>

config == <<variant, VENUE_ID, USE_REAL_SENSORS, certs>>
locals == <<raw, sensors, occupancy, spotify, message, sent>>
tickLog == <<readErr, tickPubs, pubRaised>>
counters == <<ticks, pubCalls, connectCalls, disconnectCalls, sleeps, sleepDur, pubLog>>

Unbound == [k |-> "unbound"]
NoExit == 0 - 1

ConnectingPcs == {"start", "create", "build", "connect"}
RunningPcs == {"read", "publish", "print", "sleep"}
TerminalPcs == {"stopped", "failed", "crashed"}

\* the lifecycle state of section 4.5 that a position of main() belongs to
Phase ==
  CASE pc \in ConnectingPcs -> "Connecting"
    [] pc \in RunningPcs -> "Running"
    [] pc = "handler" -> "Stopping"
    [] pc = "stopped" -> "Stopped"
    [] pc = "failed" -> "Failed"
    [] pc = "crashed" -> "Crashed"

Init ==
  /\ variant \in Variants
  /\ VENUE_ID \in VenueIds(variant)
  /\ USE_REAL_SENSORS \in (IF variant = "file" THEN {TRUE} ELSE BOOLEAN)
  /\ certs \in SUBSET CertFiles
  /\ pc = "start"
  /\ exitCode = NoExit
  /\ mqtt_connection = "unbound"
  /\ success = "unbound"
  /\ raw = Unbound /\ sensors = Unbound /\ occupancy = Unbound /\ spotify = Unbound
  /\ message = Unbound /\ sent = Unbound
  /\ readErr = "none" /\ tickPubs = 0 /\ pubRaised = FALSE
  /\ ticks = 0 /\ pubCalls = 0 /\ connectCalls = 0 /\ disconnectCalls = 0
  /\ sleeps = 0 /\ sleepDur = 0 /\ pubLog = {}
  /\ intrAt = "none"

DropLocals ==
  /\ raw' = Unbound /\ sensors' = Unbound /\ occupancy' = Unbound /\ spotify' = Unbound
  /\ message' = Unbound /\ sent' = Unbound

\* ------------------------------------------------------------ startup
\* "return 1" / "sys.exit(1)" of main's "except Exception" clause
FatalExitZero == 1 - 1
FatalExit == 1

Fatal ==
  /\ pc' = "failed"
  /\ exitCode' = FatalExit
  /\ UNCHANGED <<config, mqtt_connection, success, locals, tickLog, counters, intrAt>>

\* rpi-sensor-publisher.py lines 221-224: the placeholder check
PlaceholderNeverRejected(v, venue) == FALSE
PlaceholderRejected(v, venue) == v = "generic" /\ venue = Placeholder

\* main() up to the try block
MainStart ==
  /\ pc = "start"
  /\ IF PlaceholderRejected(variant, VENUE_ID)
     THEN /\ pc' = "failed"
          /\ exitCode' = 1
     ELSE /\ pc' = "create"
          /\ UNCHANGED exitCode
  /\ UNCHANGED <<config, mqtt_connection, success, locals, tickLog, counters, intrAt>>

\* pulse-publisher.py lines 138-153: the credential files must all exist
CertsMissing(v, present) == v = "file" /\ \E f \in CertFiles : f \notin present

CheckCerts ==
  /\ pc = "create"
  /\ IF CertsMissing(variant, certs)
     THEN Fatal
     ELSE /\ pc' = "build"
          /\ UNCHANGED <<config, exitCode, mqtt_connection, success, locals, tickLog,
                         counters, intrAt>>

\* mtls_from_path reads the three files and raises when one is absent
BuildConnection ==
  /\ pc = "build"
  /\ IF CertFiles \subseteq certs
     THEN /\ pc' = "connect"
          /\ UNCHANGED <<config, exitCode, mqtt_connection, success, locals, tickLog,
                         counters, intrAt>>
     ELSE Fatal

\* where main() goes when connect_future.result() raises
ConnectFailedRetry == "connect"
ConnectFailedContinue == "read"
ConnectFailed == "failed"

\* mqtt_connection.connect() and connect_future.result()
Connect ==
  /\ pc = "connect"
  /\ connectCalls' = connectCalls + 1
  /\ \/ /\ mqtt_connection' = "connected"
        /\ pc' = "read"
        /\ UNCHANGED exitCode
     \/ /\ pc' = ConnectFailed
        /\ exitCode' = FatalExit
        /\ UNCHANGED mqtt_connection
  /\ UNCHANGED <<config, success, locals, tickLog, ticks, pubCalls, disconnectCalls,
                 sleeps, sleepDur, pubLog, intrAt>>

\* ------------------------------------------------------------ one tick
\* the start of a call of publish_sensor_data
BeginTick(err) ==
  /\ ticks' = ticks + 1
  /\ readErr' = err
  /\ tickPubs' = 0
  /\ pubRaised' = FALSE
  /\ UNCHANGED <<config, exitCode, mqtt_connection, pubCalls, connectCalls,
                 disconnectCalls, sleeps, sleepDur, pubLog, intrAt>>

\* the message is built and the call goes on to publish
GoPublish(inp, s, o, sp) ==
  /\ raw' = inp
  /\ sensors' = s
  /\ occupancy' = o
  /\ spotify' = sp
  /\ message' = BuildMessage(variant, VENUE_ID, s, o, sp)
  /\ sent' = Unbound
  /\ pc' = "publish"
  /\ UNCHANGED success

\* pulse-publisher.py lines 182-184: "if sensors is None: return False"
NeverSkip(s) == FALSE
SkipCycle(s) == s = PyNone

\* pulse-publisher.py: read_sensor_data, then the skip or the message, for
\* the states of the shared file in inputs
ReadFileFrom(inputs) ==
  /\ pc = "read"
  /\ variant = "file"
  /\ ticks < MaxTicks
  /\ \E inp \in inputs :
       LET r == read_sensor_data_file(inp)
       IN /\ BeginTick(r.err)
          /\ IF SkipCycle(r.sensors)
             THEN /\ success' = "False"
                  /\ pc' = "sleep"
                  /\ DropLocals
             ELSE GoPublish(inp, r.sensors, r.occupancy, r.spotify)

ReadFile == ReadFileFrom(FileInputs)

\* jimmyneutron-rpi-publisher.py: read_sensor_data, then the message, for
\* the API outcomes in inputs and the mock draws in draws
ReadApiFrom(inputs, draws) ==
  /\ pc = "read"
  /\ variant = "api"
  /\ ticks < MaxTicks
  /\ \/ \E inp \in inputs :
          LET r == read_sensor_data_api(USE_REAL_SENSORS, inp, Unbound)
          IN /\ USE_REAL_SENSORS
             /\ r.sensors # Unbound
             /\ BeginTick(r.err)
             /\ GoPublish(inp, r.sensors, r.occupancy, r.spotify)
     \/ \E inp \in ApiFailures \cup {[kind |-> "unused"]}, d \in draws :
          LET r == read_sensor_data_api(USE_REAL_SENSORS, inp,
                                        get_mock_sensor_data_api(d.j, d.v))
          IN /\ USE_REAL_SENSORS <=> inp.kind # "unused"
             /\ inp.kind = "doc" => r.err # "none"
             /\ BeginTick(r.err)
             /\ GoPublish(inp, r.sensors, r.occupancy, r.spotify)

ReadApi == ReadApiFrom(ApiInputs, MockDraws)

\* rpi-sensor-publisher.py: read_sensor_data, then the message, for the mock
\* draws in draws
ReadGenericFrom(draws) ==
  /\ pc = "read"
  /\ variant = "generic"
  /\ ticks < MaxTicks
  /\ \E d \in draws :
       LET r == read_sensor_data_generic(USE_REAL_SENSORS,
                                         get_mock_sensor_data_generic(d.j, d.v))
       IN /\ BeginTick(r.err)
          /\ GoPublish([kind |-> "mock"], r.sensors, read_occupancy_data, read_spotify_data)

ReadGeneric == ReadGenericFrom(MockDraws)

\* the "except Exception" clause of publish_sensor_data: where the call ends
PublishExceptEscapes == [pc |-> "failed", success |-> "unbound", exitCode |-> 1]
PublishExceptRetry == [pc |-> "publish", success |-> "unbound", exitCode |-> NoExit]
PublishExcept == [pc |-> "sleep", success |-> "False", exitCode |-> NoExit]

\* mqtt_connection.publish(...): accepted, or it raises
Publish ==
  /\ pc = "publish"
  /\ tickPubs' = tickPubs + 1
  /\ pubCalls' = pubCalls + 1
  /\ LET call == PublishCall(variant, VENUE_ID, message)
     IN pubLog' = pubLog \cup {[topic |-> call.topic, qos |-> call.qos,
                                deviceId |-> call.payload.deviceId,
                                venueId |-> call.payload.venueId]}
  /\ \/ /\ sent' = PublishCall(variant, VENUE_ID, message)
        /\ pc' = "print"
        /\ UNCHANGED <<exitCode, success, raw, sensors, occupancy, spotify, message,
                       pubRaised>>
     \/ /\ pubRaised' = TRUE
        /\ pc' = PublishExcept.pc
        /\ success' = PublishExcept.success
        /\ exitCode' = PublishExcept.exitCode
        /\ DropLocals
  /\ UNCHANGED <<config, mqtt_connection, readErr, ticks, connectCalls, disconnectCalls,
                 sleeps, sleepDur, intrAt>>

\* the confirmation prints after the publish, then "return True"; a value
\* that ":.1f" cannot format raises into the except clause, "return False"
PrintConfirmation ==
  /\ pc = "print"
  /\ success' = IF PrintRaises(variant, sensors) THEN "False" ELSE "True"
  /\ pc' = "sleep"
  /\ DropLocals
  /\ UNCHANGED <<config, exitCode, mqtt_connection, tickLog, counters, intrAt>>

\* the argument of time.sleep
SleepArgOnFailure(ok) == IF ok = "True" THEN PUBLISH_INTERVAL ELSE 0
SleepArg(ok) == PUBLISH_INTERVAL

\* "if not success: print(...)", then time.sleep(PUBLISH_INTERVAL) returns
Sleep ==
  /\ pc = "sleep"
  /\ sleepDur' = SleepArg(success)
  /\ sleeps' = sleeps + 1
  /\ pc' = "read"
  /\ UNCHANGED <<config, exitCode, mqtt_connection, success, locals, tickLog, ticks,
                 pubCalls, connectCalls, disconnectCalls, pubLog, intrAt>>

\* ----------------------------------------------------------- shutdown
\* KeyboardInterrupt raised inside main's try block
Interrupt ==
  /\ pc \in {"create", "build", "connect"} \cup RunningPcs
  /\ pc' = "handler"
  /\ intrAt' = Phase
  /\ DropLocals
  /\ UNCHANGED <<config, exitCode, mqtt_connection, success, tickLog, counters>>

\* KeyboardInterrupt raised before the try block: nothing handles it
InterruptEarly ==
  /\ pc = "start"
  /\ pc' = "crashed"
  /\ exitCode' = 130
  /\ intrAt' = "Start"
  /\ UNCHANGED <<config, mqtt_connection, success, locals, tickLog, counters>>

\* main's "except KeyboardInterrupt" clause
HandleInterrupt ==
  /\ pc = "handler"
  /\ \/ /\ mqtt_connection = "unbound"      \* UnboundLocalError leaves the handler
        /\ pc' = "crashed"
        /\ exitCode' = 1
        /\ UNCHANGED <<mqtt_connection, disconnectCalls>>
     \/ /\ mqtt_connection # "unbound"      \* disconnect() returns its future
        /\ disconnectCalls' = disconnectCalls + 1
        /\ mqtt_connection' = "disconnected"
        /\ pc' = "stopped"
        /\ exitCode' = 0
     \/ /\ mqtt_connection # "unbound"      \* disconnect() raises
        /\ disconnectCalls' = disconnectCalls + 1
        /\ pc' = "crashed"
        /\ exitCode' = 1
        /\ UNCHANGED mqtt_connection
  /\ UNCHANGED <<config, success, locals, tickLog, ticks, pubCalls, connectCalls,
                 sleeps, sleepDur, pubLog, intrAt>>

Next ==
  \/ MainStart
  \/ CheckCerts
  \/ BuildConnection
  \/ Connect
  \/ ReadFile
  \/ ReadApi
  \/ ReadGeneric
  \/ Publish
  \/ PrintConfirmation
  \/ Sleep
  \/ Interrupt
  \/ InterruptEarly
  \/ HandleInterrupt

Spec == Init /\ [][Next]_vars

\* ------------------------------------------------- read_sensor_data alone
\* read_sensor_data applied once to each answer the source can give: the
\* process is connected and at the top of its loop, the answer is in raw.
SongAlphabet == {"a", " ", "-"}
SongTails == UNION {[1..n -> SongAlphabet] : n \in 0..MaxLen}
SongStrings == SongTails \cup {ErrorPrefix \o t : t \in SongTails}
                         \cup {SubSeq(ErrorPrefix, 1, 4) \o t : t \in SongTails}
SongInputs == {[kind |-> "doc", data |-> JObj("current_song" :> JStr(s))] : s \in SongStrings}

ReadInputs(v) == IF v = "file" THEN FileInputs \cup SongInputs ELSE ApiInputs

ReadInit ==
  /\ variant \in {"file", "api"}
  /\ VENUE_ID \in VenueIds(variant)
  /\ USE_REAL_SENSORS = TRUE
  /\ certs = CertFiles
  /\ pc = "read"
  /\ exitCode = NoExit
  /\ mqtt_connection = "connected"
  /\ success = "unbound"
  /\ raw \in ReadInputs(variant)
  /\ sensors = Unbound /\ occupancy = Unbound /\ spotify = Unbound
  /\ message = Unbound /\ sent = Unbound
  /\ readErr = "none" /\ tickPubs = 0 /\ pubRaised = FALSE
  /\ ticks = 0 /\ pubCalls = 0 /\ connectCalls = 1 /\ disconnectCalls = 0
  /\ sleeps = 0 /\ sleepDur = 0 /\ pubLog = {}
  /\ intrAt = "none"

Returned(r) ==
  /\ sensors' = r.sensors
  /\ occupancy' = r.occupancy
  /\ spotify' = r.spotify
  /\ readErr' = r.err
  /\ pc' = "returned"
  /\ UNCHANGED <<config, exitCode, mqtt_connection, success, raw, message, sent, tickPubs,
                 pubRaised, counters, intrAt>>

ReadOnce ==
  /\ pc = "read"
  /\ raw # Unbound
  /\ IF variant = "file"
     THEN Returned(read_sensor_data_file(raw))
     ELSE IF read_sensor_data_api(TRUE, raw, Unbound).sensors # Unbound
          THEN Returned(read_sensor_data_api(TRUE, raw, Unbound))
          ELSE \E d \in MockDraws :
                 Returned(read_sensor_data_api(TRUE, raw, get_mock_sensor_data_api(d.j, d.v)))

ReadSpec == ReadInit /\ [][ReadOnce]_vars

\* ======================================================== the claims
Ended == pc \in TerminalPcs

\* C1: in every variant, when the publish call of a tick raises,
\* publish_sensor_data returns False, the process does not end, and the loop
\* sleeps and then starts the next tick.
C1_PublishFailureContained ==
  [][/\ (pc = "publish" /\ pubRaised') =>
          (pc' = "sleep" /\ success' = "False" /\ exitCode' = NoExit)
     /\ (pc = "sleep" /\ pubRaised /\ pc' # "handler") =>
          (pc' = "read" /\ sleeps' = sleeps + 1 /\ exitCode' = NoExit)
     /\ (pc = "read" /\ pubRaised /\ pc' # "handler") =>
          (pc' \in {"publish", "sleep"} /\ ticks' = ticks + 1 /\ exitCode' = NoExit)]_vars

\* a second tick is under way after the first tick's publish raised
C1_Witness ==
  variant = "generic" /\ pc = "print" /\ ticks = 2 /\ success = "False"

\* C2: when the initial connect fails the process ends Failed with a
\* non-zero exit code, connect was called exactly once, no tick ran and no
\* message was published; connect is never called a second time.
C2_ConnectFailureFatal ==
  /\ connectCalls <= 1
  /\ (connectCalls = 1 /\ mqtt_connection = "unbound") =>
       /\ pc = "failed"
       /\ exitCode # 0 /\ exitCode # NoExit
       /\ ticks = 0 /\ pubCalls = 0 /\ sleeps = 0

C2_Witness ==
  pc = "failed" /\ connectCalls = 1 /\ mqtt_connection = "unbound" /\ exitCode = 1

\* the sleep that followed the latest tick took PUBLISH_INTERVAL seconds
SleptInterval == (pc = "read" /\ sleeps = ticks /\ ticks > 0) => sleepDur = PUBLISH_INTERVAL

\* C3 as stated: in every variant, a tick whose source read returned an
\* error makes no publish call, and the sleep after it is PUBLISH_INTERVAL.
C3_AsStated ==
  readErr # "none" => (tickPubs = 0 /\ SleptInterval)

\* C3 (amended): in the shared-file variant, a tick whose source read
\* returned an error makes no publish call; in every variant the sleep after
\* a tick is PUBLISH_INTERVAL, whether the tick read an error or published.
C3_FileErrorSkipsPublish ==
  /\ (variant = "file" /\ readErr # "none") => (tickPubs = 0 /\ pc # "publish" /\ pc # "print")
  /\ SleptInterval

C3_Witness ==
  variant = "file" /\ readErr # "none" /\ pc = "read" /\ sleeps = ticks /\ ticks = 1

\* the payload of the publish call the transport accepted in this tick
Payload == sent.payload

\* every sensors dict the mock generator of the HTTP-API variant can return
MockApiOutputs == {get_mock_sensor_data_api(d.j, d.v) : d \in MockDraws}

\* C4: in the HTTP-API variant a failed request (network error, timeout,
\* bad status, bad body, or an error while transforming the response) does
\* not end the tick: the message handed to publish carries the five values of
\* the mock generator and neither an occupancy nor a spotify member.
C4_ApiFallsBackToMock ==
  (variant = "api" /\ readErr # "none") =>
    /\ pc \in RunningPcs \/ pc \in {"handler", "stopped", "crashed"}
    /\ pc = "publish" =>
         /\ DOMAIN message = {"deviceId", "venueId", "timestamp", "sensors"}
         /\ message.sensors \in MockApiOutputs
    /\ pc = "print" =>
         /\ DOMAIN Payload = {"deviceId", "venueId", "timestamp", "sensors"}
         /\ DOMAIN Payload.sensors = MockFields
         /\ Payload.sensors \in MockApiOutputs

C4_Witness ==
  variant = "api" /\ readErr = "timeout" /\ pc = "print" /\ tickPubs = 1

\* C5 as stated: a KeyboardInterrupt that arrives while the loop is Running
\* ends in Stopped with exit code 0 and exactly one disconnect call, also
\* when the disconnect call fails.
C5_AsStated ==
  (Ended /\ intrAt = "Running") =>
    (pc = "stopped" /\ disconnectCalls = 1 /\ exitCode = 0)

\* C6: the exit code is 0 exactly when the run ended by the interrupt
\* handler running to its end (Stopped); a run that ended by a fatal startup
\* error (Failed) has a non-zero exit code.
C6_ExitCodes ==
  /\ ~ Ended => exitCode = NoExit
  /\ Ended => (exitCode = 0 <=> pc = "stopped")
  /\ Ended => exitCode # NoExit
  /\ pc = "stopped" => intrAt = "Running"
  /\ pc = "failed" => (intrAt = "none" /\ exitCode # 0)

C6_Witness ==
  pc = "stopped" /\ exitCode = 0 /\ intrAt = "Running" /\ ticks = 1

\* the configuration errors of section 7
ConfigurationError ==
  \/ variant = "generic" /\ VENUE_ID = Placeholder
  \/ variant = "file" /\ certs # CertFiles

\* C7: with the placeholder venue identity (generic variant) or with one of
\* the three credential files missing (shared-file variant) the process
\* never calls connect, never runs a tick, never publishes, and when it has
\* ended its exit code is non-zero.
C7_ConfigErrorFatalBeforeLoop ==
  ConfigurationError =>
    /\ connectCalls = 0 /\ ticks = 0 /\ pubCalls = 0
    /\ mqtt_connection = "unbound"
    /\ pc \notin RunningPcs \cup {"build", "connect", "stopped"}
    /\ Ended => (exitCode # 0 /\ exitCode # NoExit)
    /\ (variant = "generic" /\ pc # "start") => Ended

C7_Witness ==
  ConfigurationError /\ pc = "failed" /\ exitCode = 1 /\ intrAt = "none"

\* ------------------------------------------- claims on read_sensor_data
\* read_sensor_data has returned for a source answer that is a JSON object
ReadObject == pc = "returned" /\ raw.kind = "doc" /\ raw.data.k = "obj"

\* the raw key each sensors field is taken from
SourceKey(v, f) ==
  CASE f = "sound_level" -> IF v = "file" THEN "avg_db" ELSE "noise_db"
    [] f = "light_level" -> IF v = "file" THEN "lux" ELSE "light_level"
    [] f = "indoor_temperature" -> "temperature_f"
    [] f = "outdoor_temperature" -> "temperature_f"
    [] f = "humidity" -> "humidity"

\* the sensors record has the five fields, 0 where the raw key is absent
DefaultsApplied ==
  /\ readErr = "none"
  /\ sensors # PyNone
  /\ MockFields \subseteq DOMAIN sensors
  /\ \A f \in MockFields :
       IF SourceKey(variant, f) \in DOMAIN raw.data.o
       THEN sensors[f] = raw.data.o[SourceKey(variant, f)]
       ELSE sensors[f] = JNum(0)

\* the members other than the sensor keys have the types the mapping expects
RestWellTyped ==
  LET o == raw.data.o
  IN IF variant = "file"
     THEN /\ \A c \in {"entries", "exits"} : c \in DOMAIN o => o[c].k = "num"
          /\ "current_song" \in DOMAIN o => o["current_song"].k = "str"
     ELSE "current_song" \in DOMAIN o => o["current_song"].k \in {"obj", "null"}

\* C8 as stated: for every raw reading that is a JSON object, whatever
\* subset of the sensor keys it lacks, normalization does not raise and the
\* sensors record has the five fields, each absent key replaced by 0.
C8_AsStated == ReadObject => DefaultsApplied

\* C8 (amended): the same for every raw reading whose entries and exits,
\* when present, are numbers and whose current_song, when present, is a
\* string (shared file) or an object or null (HTTP API).
C8_DefaultsForAbsentKeys == (ReadObject /\ RestWellTyped) => DefaultsApplied

C8_Witness ==
  /\ ReadObject /\ variant = "file" /\ DOMAIN raw.data.o = {"lux", "entries"}
  /\ readErr = "none" /\ sensors["humidity"] = JNum(0) /\ sensors["light_level"] = JNum(SensorNum)

\* read_sensor_data of the shared-file variant has returned normally for a
\* document whose current_song is a string
SongRead ==
  /\ ReadObject /\ variant = "file" /\ readErr = "none"
  /\ "current_song" \in DOMAIN raw.data.o
  /\ raw.data.o["current_song"].k = "str"

SongIn == raw.data.o["current_song"].s

HasErrorPrefix(s) ==
  Len(s) >= 5 /\ s[1] = "E" /\ s[2] = "r" /\ s[3] = "r" /\ s[4] = "o" /\ s[5] = "r"

SepAt(s, i) == i + 2 <= Len(s) /\ s[i] = " " /\ s[i + 1] = "-" /\ s[i + 2] = " "
FirstSepAt(s, i) == SepAt(s, i) /\ \A j \in 1..(i - 1) : ~ SepAt(s, j)
HasSep(s) == \E i \in 1..Len(s) : SepAt(s, i)

\* t is x without its leading and trailing blanks
TrimOf(x, t) ==
  \E a \in 0..Len(x), b \in 0..Len(x) :
    /\ a + b <= Len(x)
    /\ t = SubSeq(x, a + 1, Len(x) - b)
    /\ \A i \in 1..a : x[i] = " "
    /\ \A i \in (Len(x) - b + 1)..Len(x) : x[i] = " "
    /\ t # <<>> => (t[1] # " " /\ t[Len(t)] # " ")

\* C9 as stated: a string with " - " gives title = the part left of the
\* first " - " and artist = the whole remainder; a non-empty string without
\* it gives title = the string, artist "Unknown"; a string that starts with
\* "Error", or is empty or absent, gives no now-playing group.
C9_AsStated ==
  /\ (ReadObject /\ variant = "file" /\ readErr = "none"
        /\ "current_song" \notin DOMAIN raw.data.o) => spotify = PyNone
  /\ SongRead =>
       IF SongIn = <<>> \/ HasErrorPrefix(SongIn) THEN spotify = PyNone
       ELSE IF HasSep(SongIn)
            THEN /\ spotify # PyNone
                 /\ \E i \in 1..Len(SongIn) :
                      /\ FirstSepAt(SongIn, i)
                      /\ spotify.current_song = JStr(SubSeq(SongIn, 1, i - 1))
                      /\ spotify.artist = JStr(SubSeq(SongIn, i + 3, Len(SongIn)))
            ELSE spotify = [current_song |-> JStr(SongIn), artist |-> JStr(Unknown),
                            album_art |-> PyNone]

\* C9 (amended): as stated, except that title and artist are the two parts
\* with their leading and trailing blanks removed.
C9_NowPlayingSplit ==
  /\ (ReadObject /\ variant = "file" /\ readErr = "none"
        /\ "current_song" \notin DOMAIN raw.data.o) => spotify = PyNone
  /\ SongRead =>
       IF SongIn = <<>> \/ HasErrorPrefix(SongIn) THEN spotify = PyNone
       ELSE IF HasSep(SongIn)
            THEN /\ spotify # PyNone
                 /\ spotify.album_art = PyNone
                 /\ \E i \in 1..Len(SongIn) :
                      /\ FirstSepAt(SongIn, i)
                      /\ TrimOf(SubSeq(SongIn, 1, i - 1), spotify.current_song.s)
                      /\ TrimOf(SubSeq(SongIn, i + 3, Len(SongIn)), spotify.artist.s)
            ELSE spotify = [current_song |-> JStr(SongIn), artist |-> JStr(Unknown),
                            album_art |-> PyNone]

\* "a  - " was split and its title lost the blank before the separator
C9_Witness ==
  /\ SongRead /\ SongIn = <<"a", " ", " ", "-", " ">>
  /\ spotify # PyNone /\ spotify.current_song = JStr(<<"a">>) /\ spotify.artist = JStr(<<>>)

\* -------------------------------------------------- claims on messages
\* C10 as stated: the occupancy group of every published message has
\* current, entries, exits and capacity non-negative integers, and current
\* is entries minus exits, whatever counters the source reported.
C10_AsStated ==
  (pc = "print" /\ variant \in {"file", "generic"} /\ "occupancy" \in DOMAIN Payload) =>
    /\ \A m \in {"current", "entries", "exits", "capacity"} :
         Payload.occupancy[m].k = "num" /\ Payload.occupancy[m].n >= 0
    /\ Payload.occupancy["current"].n =
         Payload.occupancy["entries"].n - Payload.occupancy["exits"].n

\* the optional groups of a message
OptionalGroups == {"occupancy", "spotify"}

\* m carries no optional group with a null value, and none at all for a
\* group whose local is None
GroupsOmitted(m) ==
  /\ \A g \in OptionalGroups : g \in DOMAIN m => (m[g] # PyNone /\ DOMAIN m[g] # {})
  /\ occupancy = PyNone => "occupancy" \notin DOMAIN m
  /\ spotify = PyNone => "spotify" \notin DOMAIN m
  /\ occupancy \notin {PyNone, Unbound} => ("occupancy" \in DOMAIN m /\ m["occupancy"] = occupancy)

\* C11: in every variant, the message handed to publish and the message
\* the transport accepted omit an optional group (occupancy, spotify) that is
\* absent for the tick; the key never appears with a null value.
C11_AbsentGroupsOmitted ==
  /\ pc = "publish" => GroupsOmitted(message)
  /\ pc = "print" => GroupsOmitted(Payload)

\* the HTTP-API variant published a reading with occupancy and no song
C11_Witness ==
  /\ variant = "api" /\ pc = "print" /\ readErr = "none"
  /\ spotify = PyNone /\ occupancy # PyNone
  /\ DOMAIN Payload = {"deviceId", "venueId", "timestamp", "sensors", "occupancy"}

\* C12: every publish call of a run, whether it was accepted or raised,
\* uses the topic configured at startup and QoS at-least-once, and its
\* message carries the configured deviceId and venueId; no step changes the
\* configured identity, so all publish calls of a run agree on all four.
C12_IdentityAndTopicFixed ==
  [][/\ variant' = variant
     /\ VENUE_ID' = VENUE_ID
     /\ Cardinality(pubLog') <= 1
     /\ pubLog \subseteq pubLog'
     /\ \A p \in pubLog' :
          /\ p.topic = MQTT_TOPIC(variant, VENUE_ID)
          /\ p.qos = "AT_LEAST_ONCE"
          /\ p.deviceId = DEVICE_ID(variant, VENUE_ID)
          /\ p.venueId = VENUE_ID
     /\ pubCalls' > 0 => pubLog' # {}]_vars

\* two publish calls were made, the first raised and the second was accepted
C12_Witness ==
  /\ pc = "print" /\ ticks = 2 /\ pubCalls = 2 /\ success = "False"
  /\ pubLog = {[topic |-> sent.topic, qos |-> "AT_LEAST_ONCE",
                deviceId |-> Payload.deviceId, venueId |-> VENUE_ID]}

\* the sensors of the running tick came from get_mock_sensor_data
FromMock ==
  /\ pc \in {"publish", "print"}
  /\ \/ variant = "generic"
     \/ variant = "api" /\ (readErr # "none" \/ ~ USE_REAL_SENSORS)

\* C13 as stated: every sound_level of the mock generator lies between 35
\* and 95 and every light_level between 0 and 600.
C13_AsStated ==
  FromMock =>
    /\ Milli(35) <= sensors["sound_level"].n /\ sensors["sound_level"].n <= Milli(95)
    /\ 0 <= sensors["light_level"].n /\ sensors["light_level"].n <= Milli(600)


\* the lifecycle transitions of section 4.5
LifecycleTransitions ==
  {<<"Connecting", "Running">>, <<"Running", "Running">>, <<"Running", "Stopping">>,
   <<"Stopping", "Stopped">>, <<"Connecting", "Failed">>}

\* C14 as stated: every step the process takes once main has entered its
\* try block either stays in its lifecycle state or takes one of the
\* transitions Connecting->Running, Running->Running, Running->Stopping,
\* Stopping->Stopped, Connecting->Failed; so Stopped and Failed are terminal
\* and Failed is never entered from Running.
C14_AsStated ==
  [][pc # "start" => (Phase' = Phase \/ <<Phase, Phase'>> \in LifecycleTransitions)]_vars

\* C15: a tick starts only at the top of the loop with as many completed
\* sleeps as completed ticks; every time.sleep call lasts PUBLISH_INTERVAL
\* and follows a tick that has ended, whether that tick published, was
\* skipped or failed at publish; the only way out of the sleep other than
\* KeyboardInterrupt is the next tick.
C15_OneSleepBetweenTicks ==
  [][/\ ticks' = ticks + 1 =>
          (pc = "read" /\ sleeps = ticks /\ pc' \in {"publish", "sleep"})
     /\ sleeps' # sleeps =>
          /\ pc = "sleep" /\ pc' = "read"
          /\ sleeps' = sleeps + 1 /\ sleeps' = ticks
          /\ sleepDur' = PUBLISH_INTERVAL
     /\ (pc = "sleep" /\ pc' # "handler") => sleeps' = sleeps + 1
     /\ (pc \in {"publish", "print"} /\ pc' \notin {"print", "handler"}) => pc' = "sleep"
     /\ sleeps' <= ticks' /\ ticks' <= sleeps' + 1]_vars

\* the second tick failed at publish and its sleep has completed
C15_Witness ==
  pc = "read" /\ ticks = 2 /\ sleeps = 2 /\ pubRaised /\ sleepDur = PUBLISH_INTERVAL

\* C16: a tick makes at most one publish call: a publish call that raised
\* is not repeated in the same tick, and a tick starts only at the top of the
\* loop, after the publish call of the previous tick has returned or raised.
C16_OnePublishPerTick ==
  [][/\ tickPubs' <= 1
     /\ pubCalls' <= ticks'
     /\ tickPubs' = tickPubs + 1 =>
          /\ pc = "publish" /\ pc' \in {"print", "sleep"}
          /\ pubCalls' = pubCalls + 1
     /\ pubCalls' # pubCalls => tickPubs' = tickPubs + 1
     /\ ticks' = ticks + 1 => (pc = "read" /\ tickPubs' = 0 /\ sent' = Unbound)
     /\ pc = "publish" => ticks' = ticks]_vars

\* both ticks made one publish call and the second one raised
C16_Witness ==
  pc = "sleep" /\ pubRaised /\ tickPubs = 1 /\ ticks = 2 /\ pubCalls = 2

\* a message was published from a source answer that was read without error
PublishedDoc == pc = "print" /\ readErr = "none" /\ raw.kind = "doc"

\* C17 as stated: a published message has an occupancy group only when the
\* raw reading of the tick has both the entry and the exit counter.
C17_AsStated ==
  (PublishedDoc /\ "occupancy" \in DOMAIN Payload) =>
    {"entries", "exits"} \subseteq DOMAIN raw.data.o

\* C18 as stated: the sensors group of a published message has the five
\* fields, and has pressure only when the raw reading of the tick has a
\* pressure key.
C18_AsStated ==
  pc = "print" =>
    /\ MockFields \subseteq DOMAIN Payload.sensors
    /\ "pressure" \in DOMAIN Payload.sensors =>
         (PublishedDoc /\ "pressure" \in DOMAIN raw.data.o)

\* the reasons read_sensor_data of the shared-file variant reports
FileErrKinds == {"file missing", "malformed content", "other"}

\* C19: in the shared-file variant a missing file, malformed JSON and any
\* other error (a document that is no object, a counter that is no number)
\* make read_sensor_data return no reading; the tick then makes no publish
\* call, leaves the session and the configuration as they were, and the loop
\* sleeps and starts the next tick.
C19_FileReadFailuresContained ==
  [][/\ \A inp \in FileFailures \cup {[kind |-> "doc", data |-> JObj("exits" :> JNull)]} :
          /\ read_sensor_data_file(inp).sensors = PyNone
          /\ read_sensor_data_file(inp).err \in FileErrKinds
     /\ (variant = "file" /\ ticks' = ticks + 1 /\ readErr' # "none") =>
          /\ readErr' \in FileErrKinds
          /\ pc' = "sleep" /\ success' = "False"
          /\ pubCalls' = pubCalls /\ tickPubs' = 0
          /\ message' = Unbound /\ sent' = Unbound
          /\ mqtt_connection = "connected" /\ mqtt_connection' = "connected"
          /\ UNCHANGED config
          /\ exitCode' = NoExit
     /\ (variant = "file" /\ readErr # "none" /\ pc = "sleep" /\ pc' # "handler") =>
          /\ pc' = "read" /\ pubCalls' = pubCalls
          /\ mqtt_connection' = "connected" /\ exitCode' = NoExit
     /\ (variant = "file" /\ readErr # "none" /\ pc = "read" /\ pc' # "handler") =>
          ticks' = ticks + 1]_vars

\* two ticks in a row found malformed content and the loop is at its top
C19_Witness ==
  /\ variant = "file" /\ readErr = "malformed content" /\ pc = "read"
  /\ ticks = 2 /\ sleeps = 2 /\ pubCalls = 0 /\ mqtt_connection = "connected"

\* ------------------------------------------------------------ liveness
\* Every call in the loop returns or raises: open/json.load on a file,
\* requests.get with timeout=5, the mock generator, publish (not awaited),
\* print and time.sleep. KeyboardInterrupt may never arrive.
\* The path a tick takes depends on the source answer only through the
\* failure kind, the reading being None, and the printed fields being
\* numbers: the loop is explored on one answer of each sort.
LiveFileInputs ==
  FileFailures \cup {[kind |-> "doc", data |-> JObj(d)] :
                       d \in {EmptyDict, "lux" :> JNull, "exits" :> JNull,
                              "entries" :> JNum(0) @@ "exits" :> JNum(1)}}
LiveApiInputs ==
  ApiFailures \cup {[kind |-> "doc", data |-> JObj(d)] :
                      d \in {EmptyDict, "humidity" :> JNull, "current_song" :> JNull}}
LiveDraws == {d \in MockDraws : d.v = 0 /\ \A f \in MockFields : d.j[f] = 0}

LiveReadFile == ReadFileFrom(LiveFileInputs)
LiveReadApi == ReadApiFrom(LiveApiInputs, LiveDraws)
LiveReadGeneric == ReadGenericFrom(LiveDraws)

LiveNext ==
  \/ MainStart
  \/ CheckCerts
  \/ BuildConnection
  \/ Connect
  \/ LiveReadFile
  \/ LiveReadApi
  \/ LiveReadGeneric
  \/ Publish
  \/ PrintConfirmation
  \/ Sleep
  \/ Interrupt
  \/ InterruptEarly
  \/ HandleInterrupt

TickProgress ==
  /\ WF_vars(LiveReadFile) /\ WF_vars(LiveReadApi) /\ WF_vars(LiveReadGeneric)
  /\ WF_vars(Publish) /\ WF_vars(PrintConfirmation) /\ WF_vars(Sleep)

LiveSpec == Init /\ [][LiveNext]_vars /\ TickProgress

Cancelled == intrAt # "none"

\* C20: while the loop is Running and no KeyboardInterrupt arrives, the
\* tick under way ends in the sleep, and the loop goes on to the next tick
\* (up to the MaxTicks ticks explored), whatever the source answered.
C20_TicksFollow ==
  /\ (pc \in {"publish", "print"}) ~> (pc = "sleep" \/ Cancelled)
  /\ \A n \in 0..(MaxTicks - 1) :
       (Phase = "Running" /\ ticks = n) ~> (ticks = n + 1 \/ Cancelled)

\* the API timed out in the first tick and the second tick is under way
C20_Witness ==
  variant = "api" /\ ticks = 2 /\ pc = "publish" /\ sleeps = 1 /\ intrAt = "none"

\* ------------------------------------------------ claims on the status
\* publish_sensor_data has returned and the transport accepted one message
\* in the tick that just ended
HandedOver == tickPubs = 1 /\ ~ pubRaised

\* C21 as stated: in every variant publish_sensor_data returns False only
\* for a tick in which no message was handed to the transport and True only
\* for a tick in which exactly one was, whatever the raw reading held.
C21_AsStated ==
  (pc = "sleep" /\ ticks > 0) =>
    /\ success = "False" => ~ HandedOver
    /\ success = "True" => HandedOver

\* C22 as stated: a KeyboardInterrupt that arrives while the process is
\* Connecting ends in Stopped with exit code 0, without a disconnect call on
\* a session that was never created and without an error leaving the handler.
C22_AsStated ==
  (Ended /\ intrAt = "Connecting") =>
    (pc = "stopped" /\ exitCode = 0 /\ disconnectCalls = 0)

\* C23: every publish call is made on a session whose connect call has
\* succeeded and whose disconnect has not been called; once disconnect has
\* been called no further publish call is made.
C23_PublishInsideSession ==
  [][/\ pubCalls' # pubCalls =>
          /\ mqtt_connection = "connected" /\ mqtt_connection' = "connected"
          /\ connectCalls = 1 /\ disconnectCalls = 0 /\ disconnectCalls' = 0
     /\ disconnectCalls > 0 => pubCalls' = pubCalls
     /\ disconnectCalls' # disconnectCalls => (pubCalls' = pubCalls /\ pc' \in TerminalPcs)
     /\ mqtt_connection' # "connected" => pc' \notin {"publish", "print"}]_vars

\* two publish calls were made, then the interrupt handler disconnected
C23_Witness ==
  pc = "stopped" /\ pubCalls = 2 /\ connectCalls = 1 /\ disconnectCalls = 1

\* C24 as stated: in the HTTP-API variant no published message carries a
\* spotify group whose current_song is "Unknown", whatever current_song
\* object the response held.
C24_AsStated ==
  (variant = "api" /\ pc = "print" /\ "spotify" \in DOMAIN Payload) =>
    Payload.spotify.current_song # JStr(Unknown)


====
